---- MODULE Spec2Model ----
(***************************************************************************)
(* Media resolution and download pipeline of anony:                        *)
(*   anony/helpers/_httpx.py  HttpxClient (make_request, download_file,    *)
(*                            _get_headers, close), DownloadResult         *)
(*   anony/core/youtube.py    YouTube.download (the Orchestrator),         *)
(*                            YouTube.valid (the Resolver's link test)     *)
(* One task runs one top-level call at a time: YouTube.download,           *)
(* HttpxClient.make_request or HttpxClient.download_file.  Every await of  *)
(* the code is one step of the model; the network, the file system and the *)
(* messaging platform answer nondeterministically.                         *)
(* ValidSpec applies YouTube.valid to a set of texts; RaceSpec runs two    *)
(* download_file calls as concurrent tasks over one file system.           *)
(***************************************************************************)
EXTENDS Integers, Sequences, FiniteSets, TLC

(* ------------------------------ bounds --------------------------------- *)
\* top-level calls made one after the other in one behaviour
MaxCalls == 2
\* largest max_retries a direct caller of make_request passes
MaxRetriesArg == 3
\* most chunks a response body is streamed in
MaxChunks == 1

(* ------------------------- program constants --------------------------- *)
MAX_RETRIES == 2
BACKOFF_FACTOR == 1
DOWNLOADS_DIR == "downloads"
DEFAULT_USER_AGENT == "AnonXMusicBot/1.0"
base == "https://www.youtube.com/watch?v="
TELEGRAM_PREFIX == "https://t.me/"

(* --------------------------- Python strings ---------------------------- *)
Char(s, i) == SubSeq(s, i, i)

\* str.startswith
StartsWith(s, p) == Len(p) <= Len(s) /\ SubSeq(s, 1, Len(p)) = p

\* str.rstrip(c) for a one-character c
RECURSIVE RStrip(_, _)
RStrip(s, c) ==
  IF Len(s) > 0 /\ Char(s, Len(s)) = c
  THEN RStrip(SubSeq(s, 1, Len(s) - 1), c)
  ELSE s

\* index of the first occurrence of the one-character c in s, 0 when none
FirstIndex(s, c) ==
  LET hits == {i \in 1..Len(s) : Char(s, i) = c}
  IN  IF hits = {} THEN 0 ELSE CHOOSE i \in hits : \A j \in hits : i <= j

\* index of the last occurrence of the one-character c in s, 0 when none
LastIndex(s, c) ==
  LET hits == {i \in 1..Len(s) : Char(s, i) = c}
  IN  IF hits = {} THEN 0 ELSE CHOOSE i \in hits : \A j \in hits : i >= j

\* str.split(c) for a one-character c
RECURSIVE Split(_, _)
Split(s, c) ==
  LET i == FirstIndex(s, c)
  IN  IF i = 0 THEN <<s>>
      ELSE <<SubSeq(s, 1, i - 1)>> \o Split(SubSeq(s, i + 1, Len(s)), c)

Digits == {"0", "1", "2", "3", "4", "5", "6", "7", "8", "9"}

DigitVal(c) ==
  CASE c = "0" -> 0 [] c = "1" -> 1 [] c = "2" -> 2 [] c = "3" -> 3
    [] c = "4" -> 4 [] c = "5" -> 5 [] c = "6" -> 6 [] c = "7" -> 7
    [] c = "8" -> 8 [] c = "9" -> 9

AllDigits(s) == Len(s) > 0 /\ \A i \in 1..Len(s) : Char(s, i) \in Digits

RECURSIVE DigitsVal(_)
DigitsVal(s) ==
  IF Len(s) = 0 THEN 0
  ELSE 10 * DigitsVal(SubSeq(s, 1, Len(s) - 1)) + DigitVal(Char(s, Len(s)))

\* int(s): whether it parses (an optional sign, then decimal digits) ...
IntParses(s) ==
  IF Len(s) > 0 /\ Char(s, 1) \in {"+", "-"}
  THEN AllDigits(SubSeq(s, 2, Len(s)))
  ELSE AllDigits(s)

\* ... and its value when it does
IntValue(s) ==
  IF Char(s, 1) = "-" THEN 0 - DigitsVal(SubSeq(s, 2, Len(s)))
  ELSE IF Char(s, 1) = "+" THEN DigitsVal(SubSeq(s, 2, Len(s)))
  ELSE DigitsVal(s)

(* --------------------------- Python values ----------------------------- *)
None == [t |-> "none"]
Str(s) == [t |-> "str", v |-> s]
Bool(b) == [t |-> "bool", v |-> b]
Dict(d) == [t |-> "dict", v |-> d]
List == [t |-> "list"]
EmptyMap == [k \in {} |-> None]

\* Truthy as a test for None alone (`is not None` where `not x` is meant)
Truthy_NotNone(x) == x.t # "none"
\* bool(x): None, "" and {} are falsy; List stands for a non-empty list
Truthy(x) ==
  CASE x.t = "none" -> FALSE
    [] x.t = "str"  -> x.v # ""
    [] x.t = "dict" -> DOMAIN x.v # {}
    [] x.t = "list" -> TRUE

\* dict.get(k)
Get(x, k) == IF k \in DOMAIN x.v THEN x.v[k] ELSE None

\* how a call ends
Return(v) == [kind |-> "return", v |-> v]
Raise(e) == [kind |-> "raise", v |-> Str(e)]
Pending == [kind |-> "pending", v |-> None]

(* ------------------------------- URLs ---------------------------------- *)
\* index at which sub first occurs in s, 0 when it does not
FindSub(s, sub) ==
  LET hits == {i \in 1..(Len(s) - Len(sub) + 1) : SubSeq(s, i, i + Len(sub) - 1) = sub}
  IN  IF hits = {} THEN 0 ELSE CHOOSE i \in hits : \A j \in hits : i <= j

\* the text of s before the first of the characters in stops
UpTo(s, stops) ==
  LET hits == {i \in 1..Len(s) : Char(s, i) \in stops}
  IN  IF hits = {} THEN s
      ELSE SubSeq(s, 1, (CHOOSE i \in hits : \A j \in hits : i <= j) - 1)

DefaultPort(scheme) ==
  CASE scheme = "https" -> 443 [] scheme = "http" -> 80 [] OTHER -> 0

\* the origin (scheme, host, port) of an absolute URL, RFC 6454; a text that
\* is no absolute URL has the origin of nothing
Origin(url) ==
  LET i == FindSub(url, "://")
  IN  IF i = 0 THEN [scheme |-> "", host |-> "", port |-> 0]
      ELSE
        LET scheme    == SubSeq(url, 1, i - 1)
            authority == UpTo(SubSeq(url, i + 3, Len(url)), {"/", "?", "#"})
            at        == LastIndex(authority, "@")
            hostport  == SubSeq(authority, at + 1, Len(authority))
            colon     == LastIndex(hostport, ":")
            hasPort   == colon > 0 /\ AllDigits(SubSeq(hostport, colon + 1, Len(hostport)))
        IN  [scheme |-> scheme,
             host   |-> IF hasPort THEN SubSeq(hostport, 1, colon - 1) ELSE hostport,
             port   |-> IF hasPort
                        THEN DigitsVal(SubSeq(hostport, colon + 1, Len(hostport)))
                        ELSE DefaultPort(scheme)]

(* ------------------------------- paths --------------------------------- *)
\* pathlib: Path(p).name, the last component; empty and "." components drop
PathName(p) ==
  LET comps == SelectSeq(Split(p, "/"), LAMBDA c : c # "" /\ c # ".")
  IN  IF comps = <<>> THEN "" ELSE comps[Len(comps)]

\* pathlib: Path(dir) / name; an absolute name replaces dir
PathJoin(dir, name) ==
  IF StartsWith(name, "/") THEN name ELSE dir \o "/" \o name

\* the maximal run of characters other than the double quote, from index i
RECURSIVE NonQuoteRun(_, _)
NonQuoteRun(s, i) ==
  IF i > Len(s) \/ Char(s, i) = "\"" THEN ""
  ELSE Char(s, i) \o NonQuoteRun(s, i + 1)

\* re.search(r'filename="?([^"]+)"?', cd): group(1) of the leftmost match
CdGroupAt(cd, i) ==
  LET j == i + 9
  IN  IF j <= Len(cd) /\ Char(cd, j) = "\"" THEN NonQuoteRun(cd, j + 1)
      ELSE NonQuoteRun(cd, j)

CdMatches(cd) ==
  {i \in 1..(Len(cd) - 8) : SubSeq(cd, i, i + 8) = "filename=" /\ CdGroupAt(cd, i) # ""}

CdHasMatch(cd) == CdMatches(cd) # {}

CdGroup(cd) ==
  CdGroupAt(cd, CHOOSE i \in CdMatches(cd) : \A j \in CdMatches(cd) : i <= j)

\* urllib.parse.unquote, for the escapes the modelled headers use
PercentDecode(code) ==
  CASE code = "%20" -> " " [] code = "%2F" -> "/" [] code = "%25" -> "%"
    [] OTHER -> code

RECURSIVE unquote(_)
unquote(s) ==
  IF Len(s) = 0 THEN ""
  ELSE IF Char(s, 1) = "%" /\ Len(s) >= 3 /\ PercentDecode(SubSeq(s, 1, 3)) # SubSeq(s, 1, 3)
       THEN PercentDecode(SubSeq(s, 1, 3)) \o unquote(SubSeq(s, 4, Len(s)))
       ELSE Char(s, 1) \o unquote(SubSeq(s, 2, Len(s)))

(* ------------------------- the modelled inputs ------------------------- *)
ApiBase == "https://a.io"
\* config.py: API_URL and API_KEY as deployed ("" is unset)
Configs == {<<"", "k3y">>, <<ApiBase, "">>, <<ApiBase, "k3y">>}
VideoIds == {"dQw4w9WgXcQ"}
VideoFlags == {FALSE}

\* what the transcoding API may name as cdnurl
DirectUrls ==
  {"https://c.io/f.mp3", "https://a.io.evil.io/f.mp3", "http://t.me/ch/12"}
PlatformUrls ==
  {"https://t.me/ch/12", "https://t.me/ch/12/", "https://t.me/ch/x", "https://t.me/7"}
CdnUrls == DirectUrls \cup PlatformUrls

\* the JSON values a 2xx body of the transcoding API may parse to
JsonValues ==
  {None, List, Dict(EmptyMap), Dict([error |-> Str("busy")]),
   Dict([cdnurl |-> None]), Dict([cdnurl |-> Str("")])}
    \cup {Dict([cdnurl |-> Str(u)]) : u \in CdnUrls}

\* Content-Disposition headers of a streamed response ("" is no header)
CdHeaders ==
  {"", "attachment; filename=f.mp3", "attachment; filename=\"a%20b.mp3\""}

\* what a direct caller passes
RequestUrls == {"", "https://a.io/api/ping", "https://c.io/j"}
BaseHeaders == {EmptyMap}
FileUrls == {"", "https://c.io/f.mp3", "https://c.io/"}
\* the JSON values a 2xx body of the endpoints a direct caller asks may parse to
OtherJsonValues == {None, Dict(EmptyMap), Dict([status |-> Str("up")])}
FilePaths == {None, Str("cache/v1.mp3")}

\* httpx sends only to http(s) URLs that name a host
ValidHttpUrl(url) ==
  Origin(url).scheme \in {"http", "https"} /\ Origin(url).host # ""

(* ------------------------------- state --------------------------------- *)
VARIABLES
  API_URL,   \* config.API_URL ("" when unset)
  API_KEY,   \* config.API_KEY ("" when unset)
  pc,        \* the await the task is at
  op,        \* the top-level call: download, make_request or download_file
  mr,        \* the frame of make_request
  df,        \* the frame of download_file
  yt,        \* the frame of YouTube.download
  session,   \* HttpxClient._session of the call's client: none, open, closed
  closes,    \* times _session.aclose() was called on it
  net,       \* the calls made to collaborators during the top-level call
  ret,       \* how the top-level call ended
  fs,        \* the file system: path -> "partial" or "complete"
  calls,     \* top-level calls made so far
  prev,      \* the previous top-level call, when it was a download_file to a
             \* destination its caller named
  link,      \* the text YouTube.valid is called with
  verdict,   \* what YouTube.valid returned for it
  tasks      \* the frames of download_file calls that run as concurrent tasks

vars == <<API_URL, API_KEY, pc, op, mr, df, yt, session, closes, net, ret, fs,
          calls, prev, link, verdict, tasks>>
config == <<API_URL, API_KEY>>
\* what no step of the pipeline touches
outside == <<config, link, verdict, tasks>>

NoMr ==
  [url |-> "", max_retries |-> 0, backoff_factor |-> 0, headers |-> EmptyMap,
   attempt |-> 0, outcomes |-> <<>>, sleeps |-> <<>>, body |-> Pending,
   result |-> Pending]
NoDf ==
  [url |-> "", file_path |-> None, overwrite |-> FALSE, headers |-> EmptyMap,
   cd |-> "", path |-> None, existed |-> FALSE, opened |-> FALSE, chunks |-> 0,
   result |-> Pending]
NoYt ==
  [video_id |-> "", video |-> FALSE, created |-> FALSE, requests |-> 0,
   response |-> Pending, cdn_url |-> None, branch |-> "none",
   chat |-> "", message_id |-> 0, failed |-> "", pending |-> Pending]
NoPrev ==
  [op |-> "none", url |-> "", dest |-> None, overwrite |-> FALSE, opened |-> FALSE,
   success |-> FALSE]

\* no call of the pipeline was made yet
Idle ==
  /\ pc = "idle"
  /\ op = "none"
  /\ mr = NoMr
  /\ df = NoDf
  /\ yt = NoYt
  /\ session = "none"
  /\ closes = 0
  /\ net = <<>>
  /\ ret = Pending
  /\ fs = EmptyMap
  /\ calls = 0
  /\ prev = NoPrev

\* the concurrent tasks, and none of them started
Tasks == {1, 2}
NoTasks == [t \in Tasks |-> [pc |-> "none", df |-> NoDf, fault |-> FALSE]]

Init ==
  /\ \E c \in Configs : API_URL = c[1] /\ API_KEY = c[2]
  /\ Idle
  /\ link = ""
  /\ verdict = Pending
  /\ tasks = NoTasks

\* a request on the client's session, as the collaborator sees it
HttpEvent(kind, url, headers) ==
  [kind |-> kind, url |-> url, headers |-> headers, session |-> session,
   chat |-> "", mid |-> 0]
\* a call to the messaging platform
PlatformEvent(kind, chat, mid) ==
  [kind |-> kind, url |-> "", headers |-> EmptyMap, session |-> session,
   chat |-> chat, mid |-> mid]

Count(log, kinds) == Cardinality({i \in 1..Len(log) : log[i].kind \in kinds})

(* --------------------- HttpxClient._get_headers ------------------------ *)
\* whether the API key goes with a request to url
NeedsKey(url) == API_URL # "" /\ API_KEY # "" /\ StartsWith(url, API_URL)

get_headers(url, base_headers) ==
  LET keyed == IF NeedsKey(url) THEN [X_API_Key |-> API_KEY] @@ base_headers
               ELSE base_headers
  IN  keyed @@ [User_Agent |-> DEFAULT_USER_AGENT]

(* ------------------------ DownloadResult ------------------------------- *)
DownloadResult(success, file_path, error) ==
  [success |-> success, file_path |-> file_path, error |-> error]

\* DownloadResult(True, file_path=path)
ResultOk(path) == DownloadResult(TRUE, Str(path), None)
\* ResultFail with the message logged and not returned
ResultFail_NoError(msg) == DownloadResult(FALSE, None, None)
\* DownloadResult(False, error=msg)
ResultFail(msg) == DownloadResult(FALSE, None, Str(msg))

(* ---------------------- returning into the caller ---------------------- *)
\* YouTube.download leaves its try block with `value`, on to the finally
ToClose(y, value, why) ==
  /\ yt' = [y EXCEPT !.pending = Return(value), !.failed = why]
  /\ pc' = "yt_close"

\* download_file, lines 139-142: the frame at its first await
DfEnter(url, file_path, overwrite, base_headers) ==
  [url |-> url, file_path |-> file_path, overwrite |-> overwrite,
   headers |-> IF url = "" THEN base_headers ELSE get_headers(url, base_headers),
   cd |-> "", path |-> None, existed |-> FALSE, opened |-> FALSE, chunks |-> 0,
   result |-> IF url = "" THEN Return(ResultFail("Empty URL provided")) ELSE Pending]

\* IsDirect with the platform's host looked for anywhere in the link
IsDirect_Anywhere(cdn_url) == FindSub(cdn_url, "t.me/") = 0
\* whether a cdnurl is fetched over HTTP rather than from the platform
IsDirect(cdn_url) == ~StartsWith(cdn_url, TELEGRAM_PREFIX)

\* parts = cdn_url.rstrip("/").split("/")
LinkParts(cdn_url) == Split(RStrip(cdn_url, "/"), "/")
\* parts[-2] and int(parts[-1]) raise on a link too short or not a number
LinkParses(cdn_url) ==
  LET parts == LinkParts(cdn_url)
  IN  Len(parts) >= 2 /\ IntParses(parts[Len(parts)])
LinkChat(cdn_url) == LinkParts(cdn_url)[Len(LinkParts(cdn_url)) - 1]
LinkMessageId(cdn_url) == IntValue(LinkParts(cdn_url)[Len(LinkParts(cdn_url))])

\* YouTube.download, lines 87-111: from the API response to the next await
AfterRequest(r) ==
  LET y0 == [yt EXCEPT !.response = r]
  IN  IF r.kind = "raise" THEN ToClose(y0, None, "request raised") /\ df' = df
      ELSE IF ~Truthy(r.v) THEN ToClose(y0, None, "empty response") /\ df' = df
      ELSE IF r.v.t # "dict" THEN ToClose(y0, None, "response.get raised") /\ df' = df
      ELSE
        LET cdn_url == Get(r.v, "cdnurl")
            y1 == [y0 EXCEPT !.cdn_url = cdn_url]
        IN  IF ~Truthy(cdn_url) THEN ToClose(y1, None, "cdnurl missing") /\ df' = df
            ELSE IF IsDirect(cdn_url.v)
            THEN LET d == DfEnter(cdn_url.v, None, FALSE, EmptyMap)
                     y2 == [y1 EXCEPT !.branch = "direct"]
                 IN  /\ df' = d
                     /\ IF d.result = Pending
                        THEN yt' = y2 /\ pc' = "df_stream"
                        ELSE ToClose(y2, None, "download failed")
            ELSE IF ~LinkParses(cdn_url.v)
            THEN /\ ToClose([y1 EXCEPT !.branch = "platform"], None, "link parse raised")
                 /\ df' = df
            ELSE /\ yt' = [y1 EXCEPT !.branch = "platform",
                                     !.chat = LinkChat(cdn_url.v),
                                     !.message_id = LinkMessageId(cdn_url.v)]
                 /\ df' = df
                 /\ pc' = "tg_get"

\* make_request ends with frame m: to the direct caller, or on in download
MrReturns(m) ==
  /\ mr' = m
  /\ IF op = "make_request"
     THEN pc' = "done" /\ ret' = m.result /\ UNCHANGED <<yt, df>>
     ELSE ret' = ret /\ AfterRequest(m.result)

\* DfReturns with download asking for the asset once more after a failure
DfReturns_Retry(d) ==
  IF op = "download_file"
  THEN df' = d /\ pc' = "done" /\ ret' = d.result /\ yt' = yt
  ELSE /\ ret' = ret
       /\ IF d.result.v.success
          THEN df' = d /\ ToClose(yt, d.result.v.file_path, "")
          ELSE IF Count(net, {"STREAM"}) < 2
          THEN /\ df' = DfEnter(d.url, None, FALSE, EmptyMap)
               /\ yt' = yt
               /\ pc' = "df_stream"
          ELSE df' = d /\ ToClose(yt, None, "download failed")
\* download_file ends with frame d: to the direct caller, or on in download
\* (lines 98-102)
DfReturns(d) ==
  /\ df' = d
  /\ IF op = "download_file"
     THEN pc' = "done" /\ ret' = d.result /\ yt' = yt
     ELSE /\ ret' = ret
          /\ IF d.result.v.success
             THEN ToClose(yt, d.result.v.file_path, "")
             ELSE ToClose(yt, None, "download failed")

(* ---------------------- HttpxClient.make_request ----------------------- *)
\* Retryable with httpx.RequestError not caught at line 112
Retryable_StatusOnly(kind) == kind = "status"
\* Retryable with the ValueError of response.json() caught like the others
Retryable_JsonToo(kind) == kind \in {"status", "reqerr", "badjson"}
\* the failures of an attempt that the loop goes on after
Retryable(kind) == kind \in {"status", "reqerr"}
\* HasNextAttempt with the loop running once more, range(max_retries + 1)
HasNextAttempt_OneMore(attempt, max_retries) == attempt < max_retries
\* for attempt in range(max_retries): whether another attempt follows
HasNextAttempt(attempt, max_retries) == attempt + 1 < max_retries
\* asyncio.sleep(backoff_factor * (2 ** attempt))
Backoff(backoff_factor, attempt) == backoff_factor * 2^attempt

\* what one GET may come to: raise_for_status raises (status), the transport
\* raises an httpx.RequestError (reqerr), something else is raised (other), the
\* 2xx body is no JSON (badjson) or parses to a value (json)
GetOutcomes(url) ==
  IF ValidHttpUrl(url)
  THEN {[k |-> "status", v |-> None], [k |-> "reqerr", v |-> None],
        [k |-> "other", v |-> None], [k |-> "badjson", v |-> None]}
         \cup {[k |-> "json", v |-> j] :
                 j \in IF op = "download" THEN JsonValues ELSE OtherJsonValues}
  ELSE {[k |-> "reqerr", v |-> None]}

\* MrEnter with the test of the URL at lines 85-87 left out
MrEnter_NoUrlCheck(url, max_retries, backoff_factor, base_headers) ==
  [url |-> url, max_retries |-> max_retries, backoff_factor |-> backoff_factor,
   headers |-> get_headers(url, base_headers),
   attempt |-> 0, outcomes |-> <<>>, sleeps |-> <<>>, body |-> Pending,
   result |-> IF max_retries <= 0 THEN Return(None) ELSE Pending]
\* lines 85-91: the frame at the first await, or the early return
MrEnter(url, max_retries, backoff_factor, base_headers) ==
  [url |-> url, max_retries |-> max_retries, backoff_factor |-> backoff_factor,
   headers |-> IF url = "" THEN base_headers ELSE get_headers(url, base_headers),
   attempt |-> 0, outcomes |-> <<>>, sleeps |-> <<>>, body |-> Pending,
   result |-> IF url = "" \/ max_retries <= 0 THEN Return(None) ELSE Pending]

\* lines 92-121: one attempt
MR_Attempt ==
  /\ pc = "mr_get"
  /\ \E o \in GetOutcomes(mr.url) :
       LET m1 == [mr EXCEPT !.outcomes = Append(@, o.k),
                            !.body = IF o.k = "json" THEN Return(o.v) ELSE Pending]
       IN  /\ net' = Append(net, HttpEvent("GET", mr.url, mr.headers))
           /\ IF Retryable(o.k)
              THEN mr' = m1 /\ pc' = "mr_sleep" /\ UNCHANGED <<yt, df, ret>>
              ELSE MrReturns([m1 EXCEPT !.result =
                     CASE o.k = "json" -> m1.body
                       [] o.k = "badjson" -> Return(None)
                       [] OTHER -> Raise("session.get")])
  /\ UNCHANGED <<outside, op, session, closes, fs, calls, prev>>

\* lines 123-126: the sleep after a failed attempt, then the next attempt or
\* the end of the loop
MR_Sleep ==
  /\ pc = "mr_sleep"
  /\ LET m1 == [mr EXCEPT !.sleeps = Append(@, Backoff(mr.backoff_factor, mr.attempt))]
     IN  IF HasNextAttempt(mr.attempt, mr.max_retries)
         THEN /\ mr' = [m1 EXCEPT !.attempt = @ + 1]
              /\ pc' = "mr_get"
              /\ UNCHANGED <<yt, df, ret>>
         ELSE MrReturns([m1 EXCEPT !.result = Return(None)])
  /\ UNCHANGED <<outside, op, session, closes, net, fs, calls, prev>>

(* ---------------------- HttpxClient.download_file ---------------------- *)
\* uuid.uuid4().hex
UUID_HEX == "0f8fad5bd9cb469fa16570867728950e"

\* lines 154-166: where the body goes
ResolvePath(url, file_path, cd) ==
  IF file_path = None
  THEN PathJoin(DOWNLOADS_DIR,
                IF CdHasMatch(cd) THEN unquote(CdGroup(cd))
                ELSE IF PathName(url) # "" THEN PathName(url)
                ELSE UUID_HEX)
  ELSE file_path.v

\* line 168: path.exists() and not overwrite
SkipExisting(path, overwrite) == path \in DOMAIN fs /\ ~overwrite

\* f"Download failed for {url}: {repr(e)}"
ErrorMsg(url, e) == "Download failed for " \o url \o ": " \o e

\* what opening the stream may come to: raise_for_status raises (status), the
\* transport raises (reqerr), or a 2xx response with its Content-Disposition
StreamOutcomes(url) ==
  IF ValidHttpUrl(url)
  THEN {[k |-> "status", cd |-> ""], [k |-> "reqerr", cd |-> ""]}
         \cup {[k |-> "ok", cd |-> cd] : cd \in CdHeaders}
  ELSE {[k |-> "reqerr", cd |-> ""]}

\* lines 145-171: the streamed GET, the destination, the existence check and
\* the parent directories
DF_Stream ==
  /\ pc = "df_stream"
  /\ net' = Append(net, HttpEvent("STREAM", df.url, df.headers))
  /\ \E o \in StreamOutcomes(df.url), mkdir \in {"ok", "OSError"} :
       IF o.k # "ok"
       THEN DfReturns([df EXCEPT !.result = Return(ResultFail(ErrorMsg(df.url, o.k)))])
       ELSE
         LET path == ResolvePath(df.url, df.file_path, o.cd)
             d1 == [df EXCEPT !.cd = o.cd, !.path = Str(path),
                              !.existed = path \in DOMAIN fs]
         IN  IF SkipExisting(path, df.overwrite)
             THEN DfReturns([d1 EXCEPT !.result = Return(ResultOk(path))])
             ELSE IF mkdir # "ok"
             THEN DfReturns([d1 EXCEPT !.result = Return(ResultFail(ErrorMsg(df.url, mkdir)))])
             ELSE df' = d1 /\ pc' = "df_open" /\ UNCHANGED <<yt, ret>>
  /\ UNCHANGED <<outside, op, mr, session, closes, fs, calls, prev>>

\* line 173: aiofiles.open(path, "wb") creates or truncates the file
DF_Open ==
  /\ pc = "df_open"
  /\ \E o \in {"ok", "OSError"} :
       IF o = "ok"
       THEN /\ fs' = (df.path.v :> "partial") @@ fs
            /\ df' = [df EXCEPT !.opened = TRUE]
            /\ pc' = "df_chunk"
            /\ UNCHANGED <<yt, ret>>
       ELSE /\ fs' = fs
            /\ DfReturns([df EXCEPT !.result = Return(ResultFail(ErrorMsg(df.url, o)))])
  /\ UNCHANGED <<outside, op, mr, session, closes, net, calls, prev>>

\* lines 174-179: one chunk read and written, the end of the body, or a
\* failure of the stream or of the write
DF_Chunk ==
  /\ pc = "df_chunk"
  /\ \E o \in {"chunk", "end", "ReadError", "OSError"} :
       CASE o = "chunk" ->
              /\ df.chunks < MaxChunks
              /\ df' = [df EXCEPT !.chunks = @ + 1]
              /\ UNCHANGED <<pc, fs, yt, ret>>
         [] o = "end" ->
              /\ fs' = (df.path.v :> "complete") @@ fs
              /\ DfReturns([df EXCEPT !.result = Return(ResultOk(df.path.v))])
         [] OTHER ->
              /\ fs' = fs
              /\ DfReturns([df EXCEPT !.result = Return(ResultFail(ErrorMsg(df.url, o)))])
  /\ UNCHANGED <<outside, op, mr, session, closes, net, calls, prev>>

(* ------------------ YouTube.download: the platform --------------------- *)
\* the path msg.download() stores the asset at
TG_FILE == "downloads/tg_audio.mp3"

\* TG_GetMessages with the cdnurl streamed when the message cannot be had
TG_GetMessages_Fallback ==
  /\ pc = "tg_get"
  /\ net' = Append(net, PlatformEvent("get_messages", yt.chat, yt.message_id))
  /\ \E o \in {"msg", "none", "raise"} :
       IF o = "msg" THEN pc' = "tg_download" /\ yt' = yt /\ df' = df
       ELSE /\ df' = DfEnter(yt.cdn_url.v, None, FALSE, EmptyMap)
            /\ yt' = yt
            /\ pc' = "df_stream"
  /\ UNCHANGED <<outside, op, mr, session, closes, ret, fs, calls, prev>>
\* line 111: app.get_messages(chat_id, message_ids), then lines 112-118
TG_GetMessages ==
  /\ pc = "tg_get"
  /\ net' = Append(net, PlatformEvent("get_messages", yt.chat, yt.message_id))
  /\ \E o \in {"msg", "none", "raise"} :
       CASE o = "msg" -> pc' = "tg_download" /\ yt' = yt
         [] o = "none" -> ToClose(yt, None, "message absent")
         [] OTHER -> ToClose(yt, None, "get_messages raised")
  /\ UNCHANGED <<outside, op, mr, df, session, closes, ret, fs, calls, prev>>

\* line 113: msg.download(), then lines 116-118
TG_Download ==
  /\ pc = "tg_download"
  /\ net' = Append(net, PlatformEvent("msg_download", yt.chat, yt.message_id))
  /\ \E o \in {"path", "none", "raise"} :
       CASE o = "path" -> /\ fs' = (TG_FILE :> "complete") @@ fs
                          /\ ToClose(yt, Str(TG_FILE), "")
         [] o = "none" -> fs' = fs /\ ToClose(yt, None, "asset download returned nothing")
         [] OTHER -> fs' = fs /\ ToClose(yt, None, "asset download raised")
  /\ UNCHANGED <<outside, op, mr, df, session, closes, ret, calls, prev>>

(* ------------- HttpxClient.close, from download's finally -------------- *)
\* YT_Close with download returning and the session never closed
YT_Close_Leak ==
  /\ pc = "yt_close"
  /\ ret' = yt.pending
  /\ pc' = "done"
  /\ UNCHANGED <<outside, op, mr, df, yt, session, closes, net, fs, calls, prev>>

\* lines 124-125 of youtube.py and 54-58 of _httpx.py: aclose() is awaited
\* and marks the session closed; whether it then returns or raises makes no
\* difference, what it raises is logged and goes no further; download returns
YT_Close ==
  /\ pc = "yt_close"
  /\ net' = Append(net, HttpEvent("aclose", "", EmptyMap))
  /\ session' = "closed"
  /\ closes' = closes + 1
  /\ ret' = yt.pending
  /\ pc' = "done"
  /\ UNCHANGED <<outside, op, mr, df, yt, fs, calls, prev>>

(* --------------------------- top-level calls --------------------------- *)
\* ConfigMissing with the check left out
ConfigMissing_Unchecked == FALSE
\* line 74: if not API_URL
ConfigMissing == API_URL = ""

\* line 84: the request to the transcoding API
ApiTrackUrl(video_id, video) ==
  API_URL \o "/api/track?url=" \o base \o video_id
          \o "&video=" \o (IF video THEN "true" ELSE "false")

\* what is kept of the call that just ended: a download_file call for a
\* destination its caller named
PrevOf ==
  IF op = "download_file" /\ df.url # "" /\ df.file_path # None
  THEN [op |-> op, url |-> df.url, dest |-> df.file_path,
        overwrite |-> df.overwrite, opened |-> df.opened, success |-> ret.v.success]
  ELSE NoPrev

\* the caller is done with the call that ended: its frames are dropped
Finish ==
  /\ pc = "done"
  /\ pc' = "idle"
  /\ prev' = PrevOf
  /\ op' = "none"
  /\ mr' = NoMr
  /\ df' = NoDf
  /\ yt' = NoYt
  /\ session' = "none"
  /\ closes' = 0
  /\ net' = <<>>
  /\ ret' = Pending
  /\ UNCHANGED <<outside, fs, calls>>

Begin(name) ==
  /\ pc = "idle"
  /\ calls < MaxCalls
  /\ calls' = calls + 1
  /\ op' = name
  /\ UNCHANGED <<outside, fs, prev, net, closes>>

\* YouTube.download(video_id, video), lines 74-85: to the first await
YT_Download(video_id, video) ==
  /\ Begin("download")
  /\ df' = NoDf
  /\ LET y0 == [NoYt EXCEPT !.video_id = video_id, !.video = video]
     IN  IF ConfigMissing
         THEN /\ yt' = [y0 EXCEPT !.failed = "API_URL not set"]
              /\ mr' = NoMr
              /\ session' = "none"
              /\ ret' = Return(None)
              /\ pc' = "done"
         ELSE \E built \in BOOLEAN :
                IF ~built
                THEN /\ yt' = [y0 EXCEPT !.failed = "HttpxClient() raised"]
                     /\ mr' = NoMr
                     /\ session' = "none"
                     /\ ret' = Raise("HttpxClient()")
                     /\ pc' = "done"
                ELSE /\ yt' = [y0 EXCEPT !.created = TRUE, !.requests = 1]
                     /\ mr' = MrEnter(ApiTrackUrl(video_id, video), MAX_RETRIES,
                                      BACKOFF_FACTOR, EmptyMap)
                     /\ session' = "open"
                     /\ ret' = Pending
                     /\ pc' = "mr_get"

\* a caller's client.make_request(url, max_retries, backoff_factor, headers=...)
MR_Call(url, max_retries, backoff_factor, base_headers) ==
  /\ Begin("make_request")
  /\ yt' = NoYt
  /\ df' = NoDf
  /\ session' = "open"
  /\ mr' = MrEnter(url, max_retries, backoff_factor, base_headers)
  /\ ret' = mr'.result
  /\ pc' = IF mr'.result = Pending THEN "mr_get" ELSE "done"

\* a caller's client.download_file(url, file_path, overwrite)
DF_Call(url, file_path, overwrite) ==
  /\ Begin("download_file")
  /\ yt' = NoYt
  /\ mr' = NoMr
  /\ session' = "open"
  /\ df' = DfEnter(url, file_path, overwrite, EmptyMap)
  /\ ret' = df'.result
  /\ pc' = IF df'.result = Pending THEN "df_stream" ELSE "done"

BackoffFactors == {BACKOFF_FACTOR, 3}

Next ==
  \/ \E v \in VideoIds, video \in VideoFlags : YT_Download(v, video)
  \/ \E u \in RequestUrls, n \in 0..MaxRetriesArg, b \in BackoffFactors, h \in BaseHeaders :
       MR_Call(u, n, b, h)
  \/ \E u \in FileUrls, p \in FilePaths, o \in BOOLEAN : DF_Call(u, p, o)
  \/ MR_Attempt
  \/ MR_Sleep
  \/ DF_Stream
  \/ DF_Open
  \/ DF_Chunk
  \/ TG_GetMessages
  \/ TG_Download
  \/ YT_Close
  \/ Finish

Spec == Init /\ [][Next]_vars

(* ------------------------- YouTube.valid -------------------------------- *)
\* [A-Za-z0-9_-]
IdChars ==
  {"A","B","C","D","E","F","G","H","I","J","K","L","M","N","O","P","Q","R","S",
   "T","U","V","W","X","Y","Z","a","b","c","d","e","f","g","h","i","j","k","l",
   "m","n","o","p","q","r","s","t","u","v","w","x","y","z","0","1","2","3","4",
   "5","6","7","8","9","_","-"}
\* \s, for the white space the modelled inputs use
Whitespace == {" ", "\t", "\n", "\r", "\f"}

\* The regular expression of line 17-21 is run as a backtracking matcher does:
\* each piece takes the set of positions a match may have come to and gives
\* the set of positions it may go on from.
\* a literal
Lit(s, P, lit) ==
  {p + Len(lit) : p \in {q \in P : /\ q + Len(lit) - 1 <= Len(s)
                                   /\ SubSeq(s, q, q + Len(lit) - 1) = lit}}
\* (a|b|c)
Alt(s, P, lits) == UNION {Lit(s, P, l) : l \in lits}
\* [class]* from p: it may stop after any number of characters of the class
RunIn(s, p, class) ==
  {q \in p..(Len(s) + 1) : \A i \in p..(q - 1) : Char(s, i) \in class}
\* [^class]* from p
RunNotIn(s, p, class) ==
  {q \in p..(Len(s) + 1) : \A i \in p..(q - 1) : Char(s, i) \notin class}

\* (https?://)?
AfterScheme(s) == {1} \cup Alt(s, {1}, {"https://", "http://"})
\* (www\.|m\.|music\.)?
AfterSub(s) == AfterScheme(s) \cup Alt(s, AfterScheme(s), {"www.", "m.", "music."})
\* (youtube\.com/(watch\?v=|shorts/|playlist\?list=)|youtu\.be/)
AfterHost(s) ==
  Alt(s, Lit(s, AfterSub(s), "youtube.com/"), {"watch?v=", "shorts/", "playlist?list="})
    \cup Lit(s, AfterSub(s), "youtu.be/")
\* ([A-Za-z0-9_-]{11}|PL[A-Za-z0-9_-]+)
AfterId(s) ==
  UNION {{q \in {p + 11} : q \in RunIn(s, p, IdChars)}
           \cup {q \in UNION {RunIn(s, r, IdChars) : r \in Lit(s, {p}, "PL")} : q >= p + 3}
         : p \in AfterHost(s)}
\* ([&?][^\s]*)?
AfterTail(s) ==
  AfterId(s) \cup UNION {RunNotIn(s, r, Whitespace) : r \in Alt(s, AfterId(s), {"&", "?"})}

\* the positions at which a match of self.regex that starts at the start of s
\* may end
RegexEnds(s) == AfterTail(s)

\* line 25: bool(re.match(self.regex, url)): some match starts at the start
valid(s) == RegexEnds(s) # {}

\* the texts valid is asked about
LinkSchemes == {"", "https://", "http://", "ftp://"}
LinkSubs == {"", "www.", "m.", "music.", "x."}
LinkForms ==
  {"youtube.com/watch?v=", "youtube.com/shorts/", "youtube.com/playlist?list=",
   "youtu.be/", "youtube.com/embed/", "vimeo.com/"}
LinkIds == {"dQw4w9WgXcQ", "PLa_1-b", "PL", "dQw4w9WgX", "dQw4w9Wg?cQ"}
LinkTails == {"", "&t=42s", "?si=x y", " and more", "/extra", "ZZ"}
Links ==
  {a \o b \o c \o d \o e :
     a \in LinkSchemes, b \in LinkSubs, c \in LinkForms, d \in LinkIds, e \in LinkTails}
    \cup {"", "never gonna give you up"}

ValidInit ==
  /\ API_URL = "" /\ API_KEY = ""
  /\ Idle
  /\ link \in Links
  /\ verdict = Pending
  /\ tasks = NoTasks

\* YouTube.valid(url)
YT_Valid ==
  /\ verdict = Pending
  /\ verdict' = Return(Bool(valid(link)))
  /\ UNCHANGED <<config, pc, op, mr, df, yt, session, closes, net, ret, fs,
                 calls, prev, link, tasks>>

ValidNext == YT_Valid

ValidSpec == ValidInit /\ [][ValidNext]_vars

(* ------------- download_file calls as concurrent tasks ----------------- *)
\* Tasks of one event loop run one at a time and give way only at an await:
\* entering the stream (line 145), opening the file (line 173), each chunk
\* read and written (lines 174-175).  What lies between two awaits is one
\* step; the file system is shared.
RaceUrl == "https://c.io/f.mp3"
RacePaths == {None, Str("cache/v1.mp3"), Str("cache/v2.mp3")}

RaceInit ==
  /\ API_URL = "" /\ API_KEY = ""
  /\ Idle
  /\ link = ""
  /\ verdict = Pending
  /\ \E p1 \in RacePaths, p2 \in RacePaths, o1 \in BOOLEAN, o2 \in BOOLEAN :
       tasks = (1 :> [pc |-> "df_stream", df |-> DfEnter(RaceUrl, p1, o1, EmptyMap),
                      fault |-> FALSE])
            @@ (2 :> [pc |-> "df_stream", df |-> DfEnter(RaceUrl, p2, o2, EmptyMap),
                      fault |-> FALSE])

\* the task t goes on with frame d at pc, after a fault of its surroundings
\* (network, disk) or not
TaskStep(t, at, d, fault) ==
  tasks' = [tasks EXCEPT ![t] = [pc |-> at, df |-> d, fault |-> @.fault \/ fault]]

\* OpenFails with the file opened for exclusive creation, mode "xb"
OpenFails_Exclusive(path) == path \in DOMAIN fs
\* line 173: whether open(path, "wb") fails because of what is at path: it
\* creates the file or truncates the one there
OpenFails(path) == FALSE

\* lines 145-171 in task t
DFT_Stream(t) ==
  LET d == tasks[t].df IN
  /\ tasks[t].pc = "df_stream"
  /\ \E o \in StreamOutcomes(d.url), mkdir \in {"ok", "OSError"} :
       IF o.k # "ok"
       THEN TaskStep(t, "done", [d EXCEPT !.result = Return(ResultFail(ErrorMsg(d.url, o.k)))], TRUE)
       ELSE
         LET path == ResolvePath(d.url, d.file_path, o.cd)
             d1 == [d EXCEPT !.cd = o.cd, !.path = Str(path),
                             !.existed = path \in DOMAIN fs]
         IN  IF SkipExisting(path, d.overwrite)
             THEN TaskStep(t, "done", [d1 EXCEPT !.result = Return(ResultOk(path))], FALSE)
             ELSE IF mkdir # "ok"
             THEN TaskStep(t, "done", [d1 EXCEPT !.result = Return(ResultFail(ErrorMsg(d.url, mkdir)))], TRUE)
             ELSE TaskStep(t, "df_open", d1, FALSE)
  /\ UNCHANGED <<config, pc, op, mr, df, yt, session, closes, net, ret, fs,
                 calls, prev, link, verdict>>

\* line 173 in task t
DFT_Open(t) ==
  LET d == tasks[t].df IN
  /\ tasks[t].pc = "df_open"
  /\ \E o \in {"ok", "OSError"} :
       IF o = "ok" /\ ~OpenFails(d.path.v)
       THEN /\ fs' = (d.path.v :> "partial") @@ fs
            /\ TaskStep(t, "df_chunk", [d EXCEPT !.opened = TRUE], FALSE)
       ELSE /\ fs' = fs
            /\ TaskStep(t, "done",
                        [d EXCEPT !.result = Return(ResultFail(ErrorMsg(d.url, "OSError")))],
                        o # "ok")
  /\ UNCHANGED <<config, pc, op, mr, df, yt, session, closes, net, ret,
                 calls, prev, link, verdict>>

\* lines 174-179 in task t
DFT_Chunk(t) ==
  LET d == tasks[t].df IN
  /\ tasks[t].pc = "df_chunk"
  /\ \E o \in {"chunk", "end", "ReadError", "OSError"} :
       CASE o = "chunk" ->
              /\ d.chunks < MaxChunks
              /\ fs' = fs
              /\ TaskStep(t, "df_chunk", [d EXCEPT !.chunks = @ + 1], FALSE)
         [] o = "end" ->
              /\ fs' = (d.path.v :> "complete") @@ fs
              /\ TaskStep(t, "done", [d EXCEPT !.result = Return(ResultOk(d.path.v))], FALSE)
         [] OTHER ->
              /\ fs' = fs
              /\ TaskStep(t, "done",
                          [d EXCEPT !.result = Return(ResultFail(ErrorMsg(d.url, o)))], TRUE)
  /\ UNCHANGED <<config, pc, op, mr, df, yt, session, closes, net, ret,
                 calls, prev, link, verdict>>

RaceNext ==
  \E t \in Tasks :
    \/ DFT_Stream(t)
    \/ DFT_Open(t)
    \/ DFT_Chunk(t)

RaceSpec == RaceInit /\ [][RaceNext]_vars

(* ============================== claims ================================= *)
Transient == {"status", "reqerr"}
Gets == Count(net, {"GET"})
Streams == Count(net, {"STREAM"})
PlatformCalls == Count(net, {"get_messages", "msg_download"})
MrEnded == mr.result # Pending

\* C1: a make_request call with max_retries >= 1 whose every attempt failed
\* transiently (HTTP status error or request error) has issued exactly
\* max_retries GETs when it ends, never more on the way, and returns None.
C1_RetryBound ==
  (mr.url # "" /\ mr.max_retries >= 1
     /\ \A i \in 1..Len(mr.outcomes) : mr.outcomes[i] \in Transient)
    => /\ Gets <= mr.max_retries
       /\ Gets = Len(mr.outcomes)
       /\ MrEnded => (Gets = mr.max_retries /\ mr.result = Return(None))

\* C1 happens: a call with max_retries = 2 ended after a status error and a
\* request error
C1_Witness ==
  /\ MrEnded
  /\ mr.max_retries = 2
  /\ mr.outcomes = <<"status", "reqerr">>
  /\ Gets = 2

\* C2: an attempt that gets a 2xx body that is no JSON is the last attempt of
\* its make_request call: the call has returned None, no GET and no sleep
\* come after it (the sleeps are those after the failed attempts before it),
\* and when it is the first attempt the call made one network call in all.
C2_BadJsonNotRetried ==
  \A i \in 1..Len(mr.outcomes) :
    mr.outcomes[i] = "badjson"
      => /\ i = Len(mr.outcomes)
         /\ mr.result = Return(None)
         /\ Gets = i
         /\ Len(mr.sleeps) = i - 1
         /\ pc \notin {"mr_get", "mr_sleep"}

\* C2 happens: the second attempt, after a failed first one, got a body that
\* is no JSON
C2_Witness ==
  /\ Len(mr.outcomes) = 2
  /\ mr.outcomes[2] = "badjson"
  /\ mr.max_retries = 3

\* C3: of two download_file calls in sequence for the same URL with the same
\* destination path and overwrite=False, the second, which finds the
\* destination existing, issues no streamed GET and returns success with
\* that path.
C3_SecondCallNoGet ==
  (pc = "done" /\ op = "download_file" /\ prev.op = "download_file"
     /\ df.url # "" /\ prev.url = df.url
     /\ df.file_path # None /\ prev.dest = df.file_path
     /\ ~prev.overwrite /\ ~df.overwrite
     /\ prev.success /\ df.file_path.v \in DOMAIN fs)
    => /\ Streams = 0
       /\ ret = Return(ResultOk(df.file_path.v))

\* C4: YouTube.download never raises to its caller, whatever stage raised,
\* and returns None whenever a stage failed.
C4_NeverRaises ==
  (pc = "done" /\ op = "download")
    => /\ ret.kind = "return"
       /\ yt.failed # "" => ret.v = None

\* C5: a YouTube.download call that created a client closes its session
\* exactly once, as the last thing before it returns on every exit path, and
\* every request on that session was issued while it was open.
C5_ClosedOnce ==
  (op = "download" /\ yt.created)
    => /\ closes = (IF pc = "done" THEN 1 ELSE 0)
       /\ session = (IF pc = "done" THEN "closed" ELSE "open")
       /\ \A i \in 1..Len(net) :
            net[i].kind \in {"GET", "STREAM"} => net[i].session = "open"
       /\ \A i \in 1..Len(net) : net[i].kind = "aclose" => i = Len(net)

\* C5 happens: the call returned after the platform message fetch raised
C5_Witness ==
  /\ pc = "done"
  /\ op = "download"
  /\ yt.failed = "get_messages raised"
  /\ closes = 1

\* the API answered, and what it answered is null, empty, or has no cdnurl or
\* an empty one
NoCdnUrl ==
  /\ op = "download"
  /\ yt.response.kind = "return"
  /\ \/ yt.response.v \in {None, Dict(EmptyMap)}
     \/ /\ yt.response.v.t = "dict"
        /\ \/ "cdnurl" \notin DOMAIN yt.response.v.v
           \/ yt.response.v.v["cdnurl"] \in {None, Str("")}

\* C6: when the API response is null or empty or has no cdnurl or an empty
\* one, download makes no download attempt (download_file is not entered, no
\* streamed GET, no platform call), asks the API no second time and returns
\* None.
C6_NoDownloadWithoutCdnUrl ==
  NoCdnUrl
    => /\ df = NoDf
       /\ Streams = 0
       /\ PlatformCalls = 0
       /\ yt.requests = 1
       /\ Gets = Len(mr.outcomes)
       /\ pc \in {"yt_close", "done"}
       /\ pc = "done" => ret = Return(None)

\* C6 happens: the API answered {"cdnurl": ""} and download has returned
C6_Witness ==
  /\ pc = "done"
  /\ NoCdnUrl
  /\ yt.response.v = Dict([cdnurl |-> Str("")])

\* the platform links of the model, with the chat and the message id each
\* names: its second-to-last and its last path segment
PlatformTargets ==
  [u \in {"https://t.me/ch/12", "https://t.me/ch/12/", "https://t.me/7"} |->
     IF u = "https://t.me/7" THEN <<"t.me", 7>> ELSE <<"ch", 12>>]

\* whether u is the platform prefix followed by chat/message_id
ChatMessageLink(u) ==
  /\ Len(u) > 13
  /\ SubSeq(u, 1, 13) = "https://t.me/"
  /\ LET rest == Split(RStrip(SubSeq(u, 14, Len(u)), "/"), "/")
     IN  Len(rest) = 2 /\ rest[1] # "" /\ AllDigits(rest[2])

\* C7 as stated: a cdnurl that is the platform prefix followed by
\* chat/message_id goes to the platform, with that chat and that message id,
\* and never to download_file; a cdnurl of any other shape goes to
\* download_file and never to the platform.
C7_ShapeDecides ==
  (op = "download" /\ yt.cdn_url.t = "str" /\ yt.cdn_url.v # ""
     /\ pc \in {"yt_close", "done"})
    => LET u == yt.cdn_url.v
       IN  IF ChatMessageLink(u)
           THEN /\ df = NoDf
                /\ Streams = 0
                /\ \E i \in 1..Len(net) :
                     /\ net[i].kind = "get_messages"
                     /\ <<net[i].chat, net[i].mid>> = PlatformTargets[u]
           ELSE /\ df.url = u
                /\ Streams = 1
                /\ PlatformCalls = 0

\* C7, amended: the branch is decided by the prefix of cdnurl alone.  A
\* cdnurl that starts with https://t.me/ never reaches download_file,
\* whatever follows the prefix, and the platform is asked, if at all, for the
\* chat and the message id that its last two path segments name (it is asked
\* when the last segment is an integer); a cdnurl that does not start with
\* the prefix goes to download_file, with that URL, and never to the
\* platform.
C7_BranchByPrefix ==
  (op = "download" /\ yt.cdn_url.t = "str" /\ yt.cdn_url.v # "")
    => LET u == yt.cdn_url.v
       IN  IF Len(u) >= 13 /\ SubSeq(u, 1, 13) = "https://t.me/"
           THEN /\ df = NoDf
                /\ Streams = 0
                /\ \A i \in 1..Len(net) :
                     net[i].kind \in {"get_messages", "msg_download"}
                       => /\ u \in DOMAIN PlatformTargets
                          /\ <<net[i].chat, net[i].mid>> = PlatformTargets[u]
                /\ (u \in DOMAIN PlatformTargets /\ pc \in {"tg_download", "yt_close", "done"})
                     => \E i \in 1..Len(net) : net[i].kind = "get_messages"
           ELSE /\ df.url = u
                /\ PlatformCalls = 0
                /\ \A i \in 1..Len(net) : net[i].kind = "STREAM" => net[i].url = u
                /\ pc \in {"yt_close", "done"} => Streams = 1

\* C7 happens: https://t.me/ch/12 went to the platform as chat ch, message 12
C7_Witness ==
  /\ op = "download"
  /\ yt.cdn_url = Str("https://t.me/ch/12")
  /\ \E i \in 1..Len(net) :
       net[i].kind = "get_messages" /\ net[i].chat = "ch" /\ net[i].mid = 12

\* C8: a request carries the API key only if the origin of its URL (scheme,
\* host, port) is the origin of the configured API base URL.
C8_KeyOnlyToApiOrigin ==
  \A i \in 1..Len(net) :
    (net[i].kind \in {"GET", "STREAM"} /\ "X_API_Key" \in DOMAIN net[i].headers)
      => Origin(net[i].url) = Origin(API_URL)

\* C9: every DownloadResult download_file returns has either success, a
\* file_path and no error, or no success, an error and no file_path.
C9_ResultShape ==
  df.result # Pending
    => LET r == df.result.v
       IN  IF r.success
           THEN r.file_path.t = "str" /\ r.file_path.v # "" /\ r.error = None
           ELSE r.error.t = "str" /\ r.error.v # "" /\ r.file_path = None

\* C9 happens: a download failed after its file was opened
C9_Witness ==
  /\ df.result # Pending
  /\ ~df.result.v.success
  /\ df.opened

\* C10: with no API base URL configured, download returns None at once: no
\* client is created, so none is to be closed, and nothing goes to the
\* network or to the platform.
C10_NoConfigNoNetwork ==
  (op = "download" /\ API_URL = "")
    => /\ pc = "done"
       /\ ret = Return(None)
       /\ ~yt.created
       /\ session = "none"
       /\ closes = 0
       /\ net = <<>>
       /\ mr = NoMr
       /\ df = NoDf

\* C10 happens: download was called with no API base URL configured
C10_Witness ==
  /\ op = "download"
  /\ API_URL = ""
  /\ pc = "done"

\* C11: an empty URL never reaches the network: the step that calls
\* make_request with an empty URL ends the call with None, and the step that
\* calls download_file with an empty URL ends it with a failed DownloadResult
\* that carries an error; neither makes a request, sleeps, opens a file or
\* changes the file system.
C11_EmptyUrlNoNetwork ==
  [][/\ (op' = "make_request" /\ mr'.url = "")
          => /\ pc' = "done"
             /\ ret' = Return(None)
             /\ net' = <<>>
             /\ mr'.outcomes = <<>>
             /\ mr'.sleeps = <<>>
             /\ fs' = fs
     /\ (op' = "download_file" /\ df'.url = "")
          => /\ pc' = "done"
             /\ ret'.kind = "return"
             /\ ~ret'.v.success
             /\ ret'.v.error # None
             /\ ret'.v.file_path = None
             /\ net' = <<>>
             /\ ~df'.opened
             /\ fs' = fs]_vars

\* C11 happens: download_file was called with an empty URL when the file
\* system already held a file
C11_Witness ==
  /\ op = "download_file"
  /\ df.url = ""
  /\ pc = "done"
  /\ fs # EmptyMap

\* the path of an absolute URL: what follows the authority, before any query
\* or fragment
UrlPath(url) ==
  LET i    == FindSub(url, "://")
      rest == IF i = 0 THEN url ELSE SubSeq(url, i + 3, Len(url))
      p    == UpTo(rest, {"?", "#"})
      j    == FirstIndex(p, "/")
  IN  IF i = 0 THEN p ELSE IF j = 0 THEN "" ELSE SubSeq(p, j, Len(p))
\* the final segment of the path of a URL, empty when the path ends in "/"
UrlLastSegment(url) ==
  LET p == UrlPath(url) IN SubSeq(p, LastIndex(p, "/") + 1, Len(p))

\* C12: the destination download_file resolves is the caller's path when one
\* was given; otherwise it is, under the download directory, the
\* percent-decoded filename of the Content-Disposition header when the header
\* has one, else the final path segment of the URL when that is not empty,
\* else a generated unique name.
C12_DestinationPrecedence ==
  df.path # None
    => df.path.v =
         IF df.file_path # None THEN df.file_path.v
         ELSE DOWNLOADS_DIR \o "/" \o
                (IF CdHasMatch(df.cd) THEN unquote(CdGroup(df.cd))
                 ELSE IF UrlLastSegment(df.url) # "" THEN UrlLastSegment(df.url)
                 ELSE UUID_HEX)

\* the recognized URL grammar: the whole text, and not only a start of it, is
\* scheme, prefix, form, id and query string
InGrammar(s) == (Len(s) + 1) \in RegexEnds(s)

\* C13: valid returns a classification for every text, and the text is
\* classified as a direct link exactly when the whole of it is in the
\* recognized URL grammar.
C13_ClassificationExact ==
  verdict.kind # "pending"
    => /\ verdict.kind = "return"
       /\ verdict.v = Bool(InGrammar(link))

\* C14: make_request sleeps only between attempts: the sleep after the failed
\* attempt k lasts backoff_factor * 2^k, and a call that has ended has slept
\* once less than it made attempts, so max_retries - 1 times when every
\* attempt failed.
C14_SleepsOnlyBetweenAttempts ==
  (mr.url # "" /\ mr.max_retries >= 1)
    => /\ \A i \in 1..Len(mr.sleeps) : mr.sleeps[i] = mr.backoff_factor * 2^(i - 1)
       /\ MrEnded => Len(mr.sleeps) = Len(mr.outcomes) - 1

\* C15: in a make_request call only a transient failure is followed by
\* another attempt; a transient failure ends the call, with None, only when
\* it is the failure of attempt max_retries - 1; and an attempt j that gets a
\* 2xx JSON body ends the call with the parsed body, after j + 1 GETs.
C15_NullOnlyAfterCap ==
  (mr.url # "" /\ mr.max_retries >= 1)
    => LET n == Len(mr.outcomes)
       IN  /\ n <= mr.max_retries
           /\ Gets = n
           /\ \A i \in 1..(n - 1) : mr.outcomes[i] \in Transient
           /\ (MrEnded /\ n >= 1 /\ mr.outcomes[n] \in Transient)
                => (n = mr.max_retries /\ mr.result = Return(None))
           /\ (n >= 1 /\ mr.outcomes[n] = "json")
                => (MrEnded /\ mr.body.kind = "return" /\ mr.result = mr.body)
           /\ (MrEnded /\ n < mr.max_retries) => mr.outcomes[n] \notin Transient

\* C15 happens: a call with max_retries = 3 got a JSON object at its third
\* attempt, after a request error and a status error
C15_Witness ==
  /\ mr.max_retries = 3
  /\ mr.outcomes = <<"reqerr", "status", "json">>
  /\ mr.result = Return(Dict([status |-> Str("up")]))

\* the request ended with a local path, or with None
Delivered == ret.kind = "return" /\ ret.v.t = "str"
Failed == ret = Return(None)

\* C16: a request of the Orchestrator goes Start -> ApiCalled -> (direct
\* download or platform fetch) -> (Delivered or Failed): a branch is entered
\* only after the API call returned a cdnurl that is not empty; the streamed
\* download is made only on the direct branch and the platform is called only
\* on the platform branch, each at most once; a request that has ended has
\* ended Delivered or Failed, and nothing follows the closing of its client.
C16_StateMachine ==
  op = "download"
    => /\ yt.branch # "none"
            => /\ Gets >= 1
               /\ yt.response.kind = "return"
               /\ yt.cdn_url = Get(yt.response.v, "cdnurl")
               /\ yt.cdn_url.t = "str" /\ yt.cdn_url.v # ""
       /\ yt.branch # "direct" => Streams = 0
       /\ yt.branch # "platform" => PlatformCalls = 0
       /\ Streams <= 1
       /\ Count(net, {"get_messages"}) <= 1
       /\ Count(net, {"msg_download"}) <= 1
       /\ pc = "done"
            => /\ Delivered \/ Failed
               /\ yt.created => net[Len(net)].kind = "aclose"

\* C17: on the direct branch a request makes one streamed GET and no more,
\* however the stream ends: when download_file succeeds download returns its
\* path, when it fails (with an error) download returns None; the API is
\* asked once, and no GET and no second stream follows the streamed GET.
C17_AssetNotRetried ==
  (op = "download" /\ yt.branch = "direct")
    => /\ Streams <= 1
       /\ Gets = Len(mr.outcomes) /\ Gets <= MAX_RETRIES
       /\ yt.requests = 1
       /\ \A i, j \in 1..Len(net) :
            (i < j /\ net[i].kind = "STREAM") => net[j].kind = "aclose"
       /\ df.result # Pending
            => /\ Streams = 1
               /\ pc \in {"yt_close", "done"}
               /\ IF df.result.v.success
                  THEN yt.pending = Return(df.result.v.file_path)
                  ELSE df.result.v.error # None /\ yt.pending = Return(None)
       /\ pc = "done" => (df.result # Pending /\ ret = yt.pending)

\* C17 happens: a request on the direct branch ended with None after its
\* stream broke with the destination open
C17_Witness ==
  /\ op = "download"
  /\ yt.branch = "direct"
  /\ pc = "done"
  /\ df.opened
  /\ ~df.result.v.success
  /\ ret = Return(None)

\* the last path segment of a link
LastSegment(u) == LinkParts(u)[Len(LinkParts(u))]

\* C18: on the platform branch nothing is streamed; the platform is not
\* called at all when the last path segment of the cdnurl is no integer; the
\* asset download is asked for only when the message was found, and what it
\* produced is what download returns; download returns None when the message
\* is absent, when fetching it raises, when the asset download raises and
\* when the link does not parse.
C18_PlatformBranch ==
  (op = "download" /\ yt.branch = "platform")
    => /\ Streams = 0
       /\ df = NoDf
       /\ ~IntParses(LastSegment(yt.cdn_url.v))
            => (PlatformCalls = 0 /\ yt.pending = Return(None))
       /\ Count(net, {"msg_download"}) <= Count(net, {"get_messages"})
       /\ Count(net, {"get_messages"}) <= 1
       /\ yt.pending # Pending
            => /\ yt.failed \in {"message absent", "get_messages raised"}
                    => (Count(net, {"msg_download"}) = 0 /\ yt.pending = Return(None))
               /\ yt.failed = "asset download raised" => yt.pending = Return(None)
               /\ yt.failed = "link parse raised" => PlatformCalls = 0
               /\ yt.pending # Return(None)
                    => /\ yt.failed = ""
                       /\ Count(net, {"msg_download"}) = 1
                       /\ yt.pending = Return(Str(TG_FILE))
       /\ pc = "done" => ret = yt.pending

\* C18 happens: a request on the platform branch ended with None, its message
\* being absent
C18_Witness ==
  /\ op = "download"
  /\ yt.branch = "platform"
  /\ pc = "done"
  /\ yt.failed = "message absent"
  /\ ret = Return(None)

\* two tasks after the same destination, neither to overwrite it
SameDestination ==
  /\ tasks[1].df.path # None
  /\ tasks[1].df.path = tasks[2].df.path
  /\ ~tasks[1].df.overwrite /\ ~tasks[2].df.overwrite

\* C19: of two concurrent first-time download_file calls for the same
\* destination with overwrite=False that have both ended, with no failure of
\* the network or the disk in either, both have returned success=True with
\* that destination as file_path, and the file is there.
C19_Convergence ==
  (/\ SameDestination
   /\ \A t \in Tasks : tasks[t].pc = "done" /\ ~tasks[t].fault)
    => \A t \in Tasks :
         /\ tasks[t].df.result = Return(ResultOk(tasks[1].df.path.v))
         /\ tasks[1].df.path.v \in DOMAIN fs

\* C19 happens: both tasks found no file at the destination and both have it
\* open for writing
C19_Witness ==
  /\ SameDestination
  /\ \A t \in Tasks :
       /\ tasks[t].pc = "df_chunk"
       /\ tasks[t].df.opened
       /\ ~tasks[t].df.existed

\* C20: a download that failed after its destination was opened for writing
\* has left the file there, not whole; and a later download_file call with a
\* URL, for the same destination and with overwrite=False, that finds the
\* file so left by the call before it returns success=True with that path,
\* having opened no file and written no byte: the file is still not whole.
C20_PartialFilePassesForWhole ==
  /\ (op = "download_file" /\ df.opened /\ df.result # Pending /\ ~df.result.v.success)
       => (df.path.v \in DOMAIN fs /\ fs[df.path.v] = "partial")
  /\ (/\ op = "download_file" /\ pc = "done"
      /\ df.url # "" /\ df.file_path # None /\ ~df.overwrite
      /\ prev.dest = df.file_path /\ prev.opened /\ ~prev.success)
       => /\ ret = Return(ResultOk(df.file_path.v))
          /\ ~df.opened
          /\ df.chunks = 0
          /\ fs[df.file_path.v] = "partial"

====
